---- MODULE Spec2Model ----
(***************************************************************************)
(* Wwise_IDs.h: the generated table of audio identifiers.  The header      *)
(* declares, in three namespaces of namespace AK, one static const         *)
(* AkUniqueID per authored object.  The only thing a consumer can do with  *)
(* the table is read a constant by its qualified name.                     *)
(*                                                                         *)
(* TLC's integers are 32-bit signed, and most identifiers are above 2^31,  *)
(* so a value is kept as two limbs, [hi, lo] with value hi * 2^16 + lo and *)
(* lo < 2^16.  hi is not truncated: a literal above 2^32 - 1 shows as      *)
(* hi >= 2^16.  Each constant is written with the literal of the header,   *)
(* and DecimalLiteral converts it digit by digit.                          *)
(***************************************************************************)
EXTENDS Integers, Sequences, FiniteSets, TLC

\* Number of consumer threads that read the table concurrently.
NumReaders == 2

Limb == 2^16

Digits == "0123456789"

\* The value of the one-character string c as a decimal digit, -1 if it is none.
DigitValue(c) ==
    IF \E i \in 1..Len(Digits) : SubSeq(Digits, i, i) = c
    THEN (CHOOSE i \in 1..Len(Digits) : SubSeq(Digits, i, i) = c) - 1
    ELSE -1

\* acc * 10 + d on limbs.
MulAdd10(acc, d) ==
    LET lo == acc.lo * 10 + d
    IN  [hi |-> acc.hi * 10 + lo \div Limb, lo |-> lo % Limb]

RECURSIVE DecimalValue(_)
\* The value of a string of decimal digits, most significant digit first.
DecimalValue(s) ==
    IF Len(s) = 0
    THEN [hi |-> 0, lo |-> 0]
    ELSE MulAdd10(DecimalValue(SubSeq(s, 1, Len(s) - 1)),
                  DigitValue(SubSeq(s, Len(s), Len(s))))

\* A C++ integer literal of the header: decimal digits and the suffix U
\* (unsigned, so the literal is its mathematical value, never negative).
DecimalLiteral(lit) ==
    DecimalValue(SubSeq(lit, 1, Len(lit) - 1))

\* namespace EVENTS
\* Mutation: the name hashed with another variant of the hash.
BGM_RANDOMLOOPING_Rehashed == DecimalLiteral("1676283021U")
BGM_RANDOMLOOPING == DecimalLiteral("3963821017U")
BGM_RANDOMLOOPING_STOP == DecimalLiteral("2370740652U")
\* Mutation: an identifier wider than 32 bits (639453935 + 2^32).
BLASTER_FIRE_Wide == DecimalLiteral("4934421231U")
BLASTER_FIRE == DecimalLiteral("639453935U")
BLASTERV3_FIRE == DecimalLiteral("2401202452U")
BOTTLE_SMASH == DecimalLiteral("3295549328U")
CHARGING_TOTEM == DecimalLiteral("2008779410U")
CHEST_OPEN == DecimalLiteral("2728948375U")
CHEST_REVEAL_01 == DecimalLiteral("4062859618U")
\* Mutation: a hash collision with CHEST_REVEAL_01.
CHEST_REVEAL_02_Collides == DecimalLiteral("4062859618U")
CHEST_REVEAL_02 == DecimalLiteral("4062859617U")
CHEST_REVEAL_03 == DecimalLiteral("4062859616U")
\* Mutation: the final character added to the hash instead of combined by XOR.
CHEST_REVEAL_04_Added == DecimalLiteral("4062859621U")
CHEST_REVEAL_04 == DecimalLiteral("4062859623U")
ITEM_PURCHASE == DecimalLiteral("946567574U")
LEVEL_UP == DecimalLiteral("2145291615U")
PLAYER_DEATH == DecimalLiteral("3083087645U")
PLAYER_JUMP == DecimalLiteral("1305133589U")
PLAYER_SPAWN_IN == DecimalLiteral("2311955112U")
\* Mutation: an identifier left unset.
TOTEM_FINISH_Unset == DecimalLiteral("0U")
TOTEM_FINISH == DecimalLiteral("39357614U")
WEAPON_UPGRADE_TIER_1 == DecimalLiteral("3850320119U")
WEAPON_UPGRADE_TIER_2 == DecimalLiteral("3850320116U")
WEAPON_UPGRADE_TIER_3 == DecimalLiteral("3850320117U")

\* namespace BUSSES
MASTER_AUDIO_BUS == DecimalLiteral("3803692087U")

\* namespace AUDIO_DEVICES
NO_OUTPUT == DecimalLiteral("2317455096U")
\* Mutation: a collision across categories, with MASTER_AUDIO_BUS.
SYSTEM_Collides == DecimalLiteral("3803692087U")
SYSTEM == DecimalLiteral("3859886410U")

\* The declarations of one namespace block, in the order of the header: each
\* is a qualified name (ns, name) and the identifier it is initialised with.
Namespace(ns, decls) ==
    [i \in 1..Len(decls) |-> [ns |-> ns, name |-> decls[i][1], id |-> decls[i][2]]]

\* The declarations of namespace EVENTS, lines 16 to 35.
EventDecls == <<
    <<"BGM_RANDOMLOOPING", BGM_RANDOMLOOPING>>,
    <<"BGM_RANDOMLOOPING_STOP", BGM_RANDOMLOOPING_STOP>>,
    <<"BLASTER_FIRE", BLASTER_FIRE>>,
    <<"BLASTERV3_FIRE", BLASTERV3_FIRE>>,
    <<"BOTTLE_SMASH", BOTTLE_SMASH>>,
    <<"CHARGING_TOTEM", CHARGING_TOTEM>>,
    <<"CHEST_OPEN", CHEST_OPEN>>,
    <<"CHEST_REVEAL_01", CHEST_REVEAL_01>>,
    <<"CHEST_REVEAL_02", CHEST_REVEAL_02>>,
    <<"CHEST_REVEAL_03", CHEST_REVEAL_03>>,
    <<"CHEST_REVEAL_04", CHEST_REVEAL_04>>,
    <<"ITEM_PURCHASE", ITEM_PURCHASE>>,
    <<"LEVEL_UP", LEVEL_UP>>,
    <<"PLAYER_DEATH", PLAYER_DEATH>>,
    <<"PLAYER_JUMP", PLAYER_JUMP>>,
    <<"PLAYER_SPAWN_IN", PLAYER_SPAWN_IN>>,
    <<"TOTEM_FINISH", TOTEM_FINISH>>,
    <<"WEAPON_UPGRADE_TIER_1", WEAPON_UPGRADE_TIER_1>>,
    <<"WEAPON_UPGRADE_TIER_2", WEAPON_UPGRADE_TIER_2>>,
    <<"WEAPON_UPGRADE_TIER_3", WEAPON_UPGRADE_TIER_3>>
>>

\* Mutation: the generator emits a name twice.
EVENTS_Redeclared ==
    Namespace("EVENTS", EventDecls \o << <<"LEVEL_UP", PLAYER_JUMP>> >>)

EVENTS == Namespace("EVENTS", EventDecls)

BUSSES ==
    Namespace("BUSSES", <<
        <<"MASTER_AUDIO_BUS", MASTER_AUDIO_BUS>>
    >>)

AUDIO_DEVICES ==
    Namespace("AUDIO_DEVICES", <<
        <<"NO_OUTPUT", NO_OUTPUT>>,
        <<"SYSTEM", SYSTEM>>
    >>)

\* Mutation: the generator emits a fourth namespace.
AK_WithBanks ==
    EVENTS \o BUSSES \o AUDIO_DEVICES
        \o Namespace("BANKS", << <<"INIT", DecimalLiteral("1355168291U")>> >>)

\* namespace AK: the three namespace blocks, nothing else.
AK == EVENTS \o BUSSES \o AUDIO_DEVICES

Readers == 1..NumReaders

\* A reader that has read nothing yet.
NoRead == [ns |-> "", name |-> "", id |-> [hi |-> -1, lo |-> -1]]

VARIABLES
    table,  \* the constants as the build artifact holds them
    reg     \* reg[t]: the qualified name reader t last used and the value it got

vars == <<table, reg>>

Init ==
    /\ table = AK
    /\ reg = [t \in Readers |-> NoRead]

\* Mutation: the assignment of the read written the wrong way round, on objects
\* that are not const.
Read_Stores(t, ns, name) ==
    \E i \in DOMAIN table :
        /\ table[i].ns = ns
        /\ table[i].name = name
        /\ table' = [table EXCEPT ![i].id = reg[t].id]
        /\ UNCHANGED reg

\* Reader t evaluates AK::ns::name.  The name resolves to its declaration; the
\* objects are const, so the read loads the value and stores nothing.
Read(t, ns, name) ==
    \E i \in DOMAIN table :
        /\ table[i].ns = ns
        /\ table[i].name = name
        /\ reg' = [reg EXCEPT ![t] = table[i]]
        /\ UNCHANGED table

Next ==
    \E t \in Readers, i \in DOMAIN table : Read(t, table[i].ns, table[i].name)

Spec == Init /\ [][Next]_vars

----------------------------------------------------------------------------
(* Helpers of the properties below. *)

Zero == [hi |-> 0, lo |-> 0]

HasRead(t) == reg[t] # NoRead

SameCategory(d, e) == d.ns = e.ns

RECURSIVE ToDecimal(_)
\* The decimal digits of a value, by long division of the limbs by 10.
ToDecimal(v) ==
    LET t == (v.hi % 10) * Limb + v.lo
        d == SubSeq(Digits, (t % 10) + 1, (t % 10) + 1)
    IN  IF v.hi = 0 /\ v.lo < 10
        THEN d
        ELSE ToDecimal([hi |-> v.hi \div 10, lo |-> t \div 10]) \o d

RECURSIVE Xor(_, _)
\* Bitwise exclusive or of two naturals.
Xor(a, b) ==
    IF a = 0 THEN b
    ELSE IF b = 0 THEN a
    ELSE ((a + b) % 2) + 2 * Xor(a \div 2, b \div 2)

XorId(v, w) == [hi |-> Xor(v.hi, w.hi), lo |-> Xor(v.lo, w.lo)]

Upper == "ABCDEFGHIJKLMNOPQRSTUVWXYZ"

\* The ASCII code of a character of an identifier of the header.
Ascii(c) ==
    IF DigitValue(c) >= 0 THEN 48 + DigitValue(c)
    ELSE IF c = "_" THEN 95
    ELSE 64 + (CHOOSE i \in 1..Len(Upper) : SubSeq(Upper, i, i) = c)

LastChar(s) == SubSeq(s, Len(s), Len(s))

\* Two names of equal length that differ in their final character only.
DifferInLastCharOnly(a, b) ==
    /\ Len(a) = Len(b)
    /\ Len(a) > 0
    /\ SubSeq(a, 1, Len(a) - 1) = SubSeq(b, 1, Len(b) - 1)
    /\ LastChar(a) # LastChar(b)

\* What the table holds and what the readers hold of it.
Seen == {table[i] : i \in DOMAIN table} \cup {reg[t] : t \in {u \in Readers : HasRead(u)}}

----------------------------------------------------------------------------
(* The properties. *)

\* C1: within a category, two entries with different names have different
\* identifiers, in the table and in what any two readers got from it.
UniqueIdsPerCategory ==
    \A d, e \in Seen :
        (SameCategory(d, e) /\ d.name # e.name) => d.id # e.id

\* Two readers hold two different events, the nearest pair of the table.
TwoEventsRead ==
    /\ reg[1].ns = "EVENTS" /\ reg[1].name = "CHEST_REVEAL_02"
    /\ reg[2].ns = "EVENTS" /\ reg[2].name = "CHEST_REVEAL_03"
    /\ reg[1].id # reg[2].id

\* C2: every identifier, of the table and of every read, is an integer v with
\* 0 <= v <= 2^32 - 1: both limbs lie in 0 .. 2^16 - 1.
IdsAre32BitUnsigned ==
    \A d \in Seen :
        /\ d.id.hi \in 0..(Limb - 1)
        /\ d.id.lo \in 0..(Limb - 1)

\* A reader holds an identifier above 2^31 - 1, which needs the unsigned range,
\* and every entry of the table (20 + 1 + 2) is there.
LargeIdRead ==
    /\ Len(table) = 23
    /\ \E t \in Readers : HasRead(t) /\ reg[t].id.hi >= 2^15

UniqueNamesPerCategory ==
    /\ \A i, j \in DOMAIN table :
           (SameCategory(table[i], table[j]) /\ table[i].name = table[j].name) => i = j
    /\ \A t, u \in Readers :
           (HasRead(t) /\ SameCategory(reg[t], reg[u]) /\ reg[t].name = reg[u].name)
               => reg[t].id = reg[u].id

\* Each category has been looked up by name: the bus by one reader, an audio
\* device by the other.
NamesResolved ==
    /\ reg[1].ns = "BUSSES" /\ reg[1].name = "MASTER_AUDIO_BUS"
    /\ reg[2].ns = "AUDIO_DEVICES" /\ reg[2].name = "SYSTEM"

\* C5: the table is immutable: after any interleaving of reads it is the table
\* of the header, every read holds the value of its declaration, and two reads
\* of one name hold the same value.
TableImmutable ==
    /\ table = AK
    /\ \A t \in Readers :
           HasRead(t) => \E i \in DOMAIN table : table[i] = reg[t]
    /\ \A t, u \in Readers :
           (HasRead(t) /\ reg[t].ns = reg[u].ns /\ reg[t].name = reg[u].name)
               => reg[t].id = reg[u].id

\* Two readers have read the same constant.
SameConstantReadTwice ==
    /\ HasRead(1)
    /\ reg[1].ns = reg[2].ns
    /\ reg[1].name = reg[2].name

\* C7: the table has exactly the three namespaces EVENTS, BUSSES and
\* AUDIO_DEVICES; every entry is in one of them and no name is in two.
ThreeNamespaces ==
    /\ {table[i].ns : i \in DOMAIN table} = {"EVENTS", "BUSSES", "AUDIO_DEVICES"}
    /\ \A d \in Seen : d.ns \in {"EVENTS", "BUSSES", "AUDIO_DEVICES"}
    /\ \A d, e \in Seen : d.name = e.name => d.ns = e.ns

\* The readers hold entries of two different namespaces.
TwoNamespacesRead ==
    /\ reg[1].ns = "EVENTS"
    /\ reg[2].ns = "AUDIO_DEVICES"

\* C8: identifiers are unique across the whole table: two entries that differ
\* in category or name have different identifiers.
UniqueIdsAcrossTable ==
    \A d, e \in Seen :
        (d.ns # e.ns \/ d.name # e.name) => d.id # e.id

\* The readers hold entries of different categories.
EventAndBusRead ==
    /\ reg[1].ns = "EVENTS"
    /\ reg[2].ns = "BUSSES"
    /\ reg[1].id # reg[2].id

\* C9: two entries of a category whose names differ in the final character
\* only have identifiers whose XOR is the XOR of the ASCII codes of those
\* characters, so the identifiers agree on the upper 24 bits.
LastCharCombinedByXor ==
    \A d, e \in Seen :
        (SameCategory(d, e) /\ DifferInLastCharOnly(d.name, e.name))
            => /\ XorId(d.id, e.id)
                      = [hi |-> 0, lo |-> Xor(Ascii(LastChar(d.name)), Ascii(LastChar(e.name)))]
               /\ d.id.hi = e.id.hi
               /\ d.id.lo \div 2^8 = e.id.lo \div 2^8

\* The readers hold CHEST_REVEAL_01 and CHEST_REVEAL_04, whose identifiers
\* differ by XOR 5 = 49 XOR 52 and not by the difference of the characters.
RevealPairRead ==
    /\ reg[1].ns = "EVENTS" /\ reg[1].name = "CHEST_REVEAL_01"
    /\ reg[2].ns = "EVENTS" /\ reg[2].name = "CHEST_REVEAL_04"
    /\ XorId(reg[1].id, reg[2].id) = [hi |-> 0, lo |-> 5]
    /\ \E i, j \in DOMAIN table :
           /\ table[i].name = "WEAPON_UPGRADE_TIER_1"
           /\ table[j].name = "WEAPON_UPGRADE_TIER_3"
           /\ DifferInLastCharOnly(table[i].name, table[j].name)

\* C10: no identifier is 0: every identifier of the table and of every read is
\* strictly positive.
NoZeroId ==
    \A d \in Seen : d.id # Zero /\ (d.id.hi > 0 \/ d.id.lo > 0)

\* A reader holds the smallest identifier of the table, TOTEM_FINISH.
SmallestIdRead ==
    \E t \in Readers :
        /\ reg[t].name = "TOTEM_FINISH"
        /\ \A i \in DOMAIN table : table[i].id.hi >= reg[t].id.hi

====
